---- MODULE Spec2Model ----
(***************************************************************************)
(* Model of the executor service task, src/service/executor_task.rs:       *)
(* run_executor_task, the single consumer of the ToExecutor queue.         *)
(*                                                                         *)
(* Byte vectors (Vec<u8>) are sequences of naturals.  Option<T> is a       *)
(* sequence of length 0 (None) or 1 (Some).  A storage snapshot is a       *)
(* function from the keys it holds to their values; the Storage Store is   *)
(* a function from the block hashes that have a snapshot to the snapshot.  *)
(***************************************************************************)
EXTENDS Naturals, Sequences, FiniteSets, TLC

\* ------------------------------------------------------------------ bounds
\* Number of Execute messages the callers send in one run.
MaxRequests == 2

\* ------------------------------------------------------------ data domains
\* b":code", the well-known key of the runtime code (line 114).
CodeKey == <<58, 99, 111, 100, 101>>

\* Storage keys of the model: b":", b":code", b"a".
Keys == {<<58>>, CodeKey, <<97>>}

\* Storage values of the model.  <<>> is the empty byte vector.
Values == {<<>>, <<1>>, <<2>>}

\* Block hashes (H256) of the model.
Hashes == {0, 1, 2}

None == <<>>
Some(x) == <<x>>

\* block::Block: only the header's parent hash and what its hash derives
\* from are kept.
Blocks ==
    {[parent_hash |-> 0, digest |-> 1], [parent_hash |-> 1, digest |-> 2],
     [parent_hash |-> 0, digest |-> 2], [parent_hash |-> 1, digest |-> 1]}

\* to_execute.header.block_hash(): derived from the header's content.
block_hash(header) == header.digest

\* Snapshots: every mapping from a subset of Keys to Values.
Snapshots == UNION {[D -> Values] : D \in SUBSET Keys}

\* HashMap<Vec<u8>, Option<Vec<u8>>>: the verifier's storage_top_trie_changes.
OptValues == {None} \cup {Some(v) : v \in Values}
\* The model's verifier returns no change, any change of a single key, or a
\* change of two keys.
ChangeSets ==
    UNION {[D -> OptValues] : D \in {{}} \cup {{k} : k \in Keys}}
    \cup {(<<97>> :> None) @@ (CodeKey :> Some(<<2>>))}

\* ------------------------------------------------- byte vectors and ordering
\* Lexicographic order of byte vectors (Ord for [u8]).
RECURSIVE KeyLess(_, _)
KeyLess(a, b) ==
    IF b = <<>> THEN FALSE
    ELSE IF a = <<>> THEN TRUE
    ELSE IF Head(a) # Head(b) THEN Head(a) < Head(b)
    ELSE KeyLess(Tail(a), Tail(b))

\* The least key of a non-empty set of keys.
MinKey(S) == CHOOSE k \in S : \A j \in S : j = k \/ KeyLess(k, j)

\* The keys of S in increasing order.
RECURSIVE SortedKeys(_)
SortedKeys(S) ==
    IF S = {} THEN <<>>
    ELSE LET k == MinKey(S) IN <<k>> \o SortedKeys(S \ {k})

\* --------------------------------------------------------- storage snapshot
\* parent.get(&key)
snapshot_get(snap, key) == IF key \in DOMAIN snap THEN Some(snap[key]) ELSE None

\* parent.code_key(): the value stored under b":code".
code_key(snap) == snapshot_get(snap, CodeKey)

\* parent.storage_keys()
storage_keys(snap) == SortedKeys(DOMAIN snap)

\* parent.next_key(&key): the least key strictly greater than key.
next_key(snap, key) ==
    LET above == {k \in DOMAIN snap : KeyLess(key, k)}
    IN  IF above = {} THEN None ELSE Some(MinKey(above))

\* new_block_storage.insert(key, value)
snapshot_insert(snap, key, value) ==
    [k \in DOMAIN snap \cup {key} |-> IF k = key THEN value ELSE snap[k]]

\* new_block_storage.remove(key)
snapshot_remove(snap, key) == [k \in DOMAIN snap \ {key} |-> snap[k]]

\* ------------------------------------------------------------ Storage Store
\* config.storage.block(&hash).storage(): the snapshot of the block, if any.
block_storage(store, hash) == IF hash \in DOMAIN store THEN Some(store[hash]) ELSE None

\* config.storage.remove_storage(&hash)
remove_storage(store, hash) == [h \in DOMAIN store \ {hash} |-> store[h]]

\* config.storage.block(&hash).set_storage(snap)
set_storage(store, hash, snap) ==
    [h \in DOMAIN store \cup {hash} |-> IF h = hash THEN snap ELSE store[h]]

\* ------------------------------------------------------------ Runtime code
\* executor::WasmBlob::from_bytes(code): the compiled form of the code, or an
\* error (None) when the bytes are no program.  The empty byte vector is the
\* malformed program of the model.
from_bytes(code) == IF code = <<>> THEN None ELSE Some([compiled_from |-> code])

\* Faulty variants of cache_stale: one compiles on every message, the other
\* never compares the cached key with the parent's code.
cache_stale_always(cache, code) == TRUE

cache_stale_when_empty(cache, code) == cache = None

\* Lines 68-71: whether the cache has to be (re)filled for the parent's code.
cache_stale(cache, code) == IF cache = None THEN TRUE ELSE cache[1].code # code

\* Faulty variant of touches_code: a removal of b":code" is not seen.
touches_code_present_only(changes) ==
    CodeKey \in DOMAIN changes /\ changes[CodeKey] # None

\* Line 114: whether the changes contain the key b":code".
touches_code(changes) == CodeKey \in DOMAIN changes

\* ---------------------------------------------------------- child snapshot
\* Lines 118-125: the parent's content with every change applied, one entry
\* of the HashMap after the other.
RECURSIVE apply_changes(_, _, _)
apply_changes(snap, changes, todo) ==
    IF todo = {} THEN snap
    ELSE LET key == CHOOSE k \in todo : TRUE
             next == IF changes[key] # None
                     THEN snapshot_insert(snap, key, changes[key][1])
                     ELSE snapshot_remove(snap, key)
         IN  apply_changes(next, changes, todo \ {key})

\* Faulty variant of new_block_storage_of: removals are not applied.
new_block_storage_inserts_only(parent_snap, changes) ==
    LET present == {k \in DOMAIN changes : changes[k] # None}
    IN  [k \in DOMAIN parent_snap \cup present |->
            IF k \in present THEN changes[k][1] ELSE parent_snap[k]]

\* Lines 118-125: the child snapshot built from the parent's and the changes.
new_block_storage_of(parent_snap, changes) ==
    apply_changes(parent_snap, changes, DOMAIN changes)

\* Line 126: the hash the child snapshot is stored under.
new_hash(block) == block_hash(block)

\* Faulty variant of evicted_hash: the child's hash is removed instead.
evicted_hash_child(block) == block_hash(block)

\* Line 130: the hash whose snapshot is removed.
evicted_hash(block) == block.parent_hash

\* Faulty variant of is_canceled: the check is skipped.
is_canceled_never(receiver_alive) == FALSE

\* Line 54: send_back.is_canceled(), true once the receiver is dropped.
is_canceled(receiver_alive) == ~receiver_alive

\* -------------------------------------------------------------------- state
VARIABLES
    sent,             \* every ToExecutor::Execute block sent, in arrival order
    senders_open,     \* some mpsc::Sender of config.to_executor still exists
    head,             \* number of messages the task has taken from the queue
    rx_alive,         \* rx_alive[i]: the oneshot receiver of message i exists
    delivered,        \* delivered[i]: the outcomes put on message i's channel
    storage,          \* config.storage: block hash -> snapshot
    wasm_blob_cache,  \* Option<(Vec<u8>, WasmBlob)>
    pc,               \* where the task is
    parent,           \* Option: the parent snapshot held by this iteration
    success,          \* Option: the changes the verifier returned
    new_block_storage,\* Option: the child snapshot built by this iteration
    answer,           \* the last answer an accessor gave to the verifier
    log,              \* Option: the record of the last message processed
    prev              \* Option: the summary of the one processed before it

vars == <<sent, senders_open, head, rx_alive, delivered, storage,
          wasm_blob_cache, pc, parent, success, new_block_storage, answer, log, prev>>

\* The snapshots the store may hold when the task starts.
GenesisA == (CodeKey :> <<1>>) @@ (<<97>> :> <<1>>)
GenesisB == (CodeKey :> <<2>>) @@ (<<58>> :> <<2>>)
InitialStores == {(0 :> GenesisA), (0 :> GenesisA) @@ (1 :> GenesisB)}

Init ==
    /\ sent = <<>>
    /\ senders_open = TRUE
    /\ head = 0
    /\ rx_alive = <<>>
    /\ delivered = <<>>
    /\ storage \in InitialStores
    /\ wasm_blob_cache = None
    /\ pc = "idle"
    /\ parent = None
    /\ success = None
    /\ new_block_storage = None
    /\ answer = None
    /\ log = None
    /\ prev = None

\* The message the task is working on.
to_execute == sent[head]

\* The record kept of the message being processed, or processed last: the
\* parent snapshot found for it, the number of calls of from_bytes it caused,
\* the runtime handed to the verifier, the changes the verifier returned and
\* how the iteration ended: "running", "accepted", or the cause of the panic
\* ("missing_parent", "missing_code", "compile_error", "assert_prefix",
\* "rejected").
LogEntry(i, parent_snap, compiles, runtime, outcome) ==
    [id |-> i, parent |-> parent_snap, compiles |-> compiles, runtime |-> runtime,
     outcome |-> outcome, changes |-> None]

\* What is kept of the message processed before that one: the code of its
\* parent and whether its changes contained b":code".
Summary(entry) ==
    [code |-> code_key(entry.parent[1]), touched |-> CodeKey \in DOMAIN entry.changes[1]]

\* ------------------------------------------------------------- environment
\* A caller sends Execute { to_execute: block, send_back } (lines 17-23).
Submit(block) ==
    /\ senders_open
    /\ pc \notin {"panicked", "terminated"}
    /\ Len(sent) < MaxRequests
    /\ sent' = Append(sent, block)
    /\ rx_alive' = Append(rx_alive, TRUE)
    /\ delivered' = Append(delivered, <<>>)
    /\ UNCHANGED <<senders_open, head, storage, wasm_blob_cache, pc, parent,
                   success, new_block_storage, answer, log, prev>>

\* The caller of message i drops its oneshot receiver before any outcome.
DropReceiver(i) ==
    /\ i \in 1..Len(sent)
    /\ rx_alive[i]
    /\ delivered[i] = <<>>
    /\ pc \notin {"panicked", "terminated"}
    /\ rx_alive' = [rx_alive EXCEPT ![i] = FALSE]
    /\ UNCHANGED <<sent, senders_open, head, delivered, storage, wasm_blob_cache,
                   pc, parent, success, new_block_storage, answer, log, prev>>

\* The last mpsc::Sender is dropped: the queue is closed.
CloseSenders ==
    /\ senders_open
    /\ pc \notin {"panicked", "terminated"}
    /\ senders_open' = FALSE
    /\ UNCHANGED <<sent, head, rx_alive, delivered, storage, wasm_blob_cache, pc,
                   parent, success, new_block_storage, answer, log, prev>>

\* --------------------------------------------------------------- the task
\* A panic of the task: the iteration's locals, send_back included, are dropped.
Panic(entry) ==
    /\ pc' = "panicked"
    /\ log' = Some(entry)
    /\ parent' = None
    /\ success' = None
    /\ new_block_storage' = None
    /\ answer' = None

\* Faulty variant of awaiting_next: the next message is taken while the
\* verifier is still running.
awaiting_next_eager(at) == at \in {"idle", "verifying"}

\* Line 48: the task is at config.to_executor.next().await, which it reaches
\* only when the body of the loop has run to its end.
awaiting_next(at) == at = "idle"

\* Lines 48-110: config.to_executor.next() yields message head + 1; the
\* iteration runs up to the await of verify_block.
ReceiveExecute ==
    /\ awaiting_next(pc)
    /\ head < Len(sent)
    /\ head' = head + 1
    /\ UNCHANGED <<sent, senders_open, rx_alive, delivered, storage>>
    /\ LET i == head + 1
           older == IF log = None \/ log[1].changes = None
                    THEN prev ELSE Some(Summary(log[1]))
           found == block_storage(storage, sent[i].parent_hash)
       IN  IF is_canceled(rx_alive[i])
           THEN \* lines 54-56: continue
                UNCHANGED <<wasm_blob_cache, pc, parent, success,
                            new_block_storage, answer, log, prev>>
           ELSE IF found = None
           THEN \* lines 58-62: unwrap of a missing snapshot
                /\ Panic(LogEntry(i, None, 0, None, "missing_parent"))
                /\ prev' = older
                /\ UNCHANGED wasm_blob_cache
           ELSE IF code_key(found[1]) = None
           THEN \* line 67: unwrap of a missing b":code"
                /\ Panic(LogEntry(i, found, 0, None, "missing_code"))
                /\ prev' = older
                /\ UNCHANGED wasm_blob_cache
           ELSE LET code == code_key(found[1])[1]
                    stale == cache_stale(wasm_blob_cache, code)
                    blob == from_bytes(code)
                IN  IF stale /\ blob = None
                    THEN \* line 73: unwrap of a compilation error
                         /\ Panic(LogEntry(i, found, 1, None, "compile_error"))
                         /\ prev' = older
                         /\ UNCHANGED wasm_blob_cache
                    ELSE /\ wasm_blob_cache' =
                              IF stale THEN Some([code |-> code, blob |-> blob[1]])
                              ELSE wasm_blob_cache
                         /\ pc' = "verifying"
                         /\ parent' = found
                         /\ log' = Some(LogEntry(i, found, IF stale THEN 1 ELSE 0,
                                                 Some(wasm_blob_cache'[1].blob), "running"))
                         /\ prev' = older
                         /\ UNCHANGED <<success, new_block_storage, answer>>

\* Faulty variant of ParentStorageGet: the closure reads the snapshot stored
\* under the block's own hash instead of the parent snapshot it was given.
ParentStorageGetOfChild(key) ==
    /\ pc = "verifying"
    /\ answer' = Some([call |-> "get", arg |-> key,
                       ret |-> IF new_hash(to_execute) \in DOMAIN storage
                               THEN snapshot_get(storage[new_hash(to_execute)], key)
                               ELSE None])
    /\ UNCHANGED <<sent, senders_open, head, rx_alive, delivered, storage,
                   wasm_blob_cache, pc, parent, success, new_block_storage, log, prev>>

\* Lines 84-91: the verifier calls parent_storage_get(key).
ParentStorageGet(key) ==
    /\ pc = "verifying"
    /\ answer' = Some([call |-> "get", arg |-> key, ret |-> snapshot_get(parent[1], key)])
    /\ UNCHANGED <<sent, senders_open, head, rx_alive, delivered, storage,
                   wasm_blob_cache, pc, parent, success, new_block_storage, log, prev>>

\* Faulty variant of ParentStorageKeysPrefix: a non-empty prefix is answered
\* with the keys that start with it.
ParentStorageKeysPrefixFiltered(prefix) ==
    /\ pc = "verifying"
    /\ answer' = Some([call |-> "keys_prefix", arg |-> prefix,
                       ret |-> SortedKeys({k \in DOMAIN parent[1] :
                                  /\ Len(k) >= Len(prefix)
                                  /\ SubSeq(k, 1, Len(prefix)) = prefix})])
    /\ UNCHANGED <<sent, senders_open, head, rx_alive, delivered, storage,
                   wasm_blob_cache, pc, parent, success, new_block_storage, log, prev>>

\* Lines 92-100: the verifier calls parent_storage_keys_prefix(prefix).
ParentStorageKeysPrefix(prefix) ==
    /\ pc = "verifying"
    /\ IF prefix = <<>>
       THEN /\ answer' = Some([call |-> "keys_prefix", arg |-> prefix,
                               ret |-> storage_keys(parent[1])])
            /\ UNCHANGED <<pc, parent, success, new_block_storage, log, prev>>
       ELSE \* line 95: assert!(prefix.is_empty())
            /\ Panic([log[1] EXCEPT !.outcome = "assert_prefix"])
            /\ UNCHANGED prev
    /\ UNCHANGED <<sent, senders_open, head, rx_alive, delivered, storage,
                   wasm_blob_cache>>

\* Lines 101-108: the verifier calls parent_storage_next_key(key).
ParentStorageNextKey(key) ==
    /\ pc = "verifying"
    /\ answer' = Some([call |-> "next_key", arg |-> key, ret |-> next_key(parent[1], key)])
    /\ UNCHANGED <<sent, senders_open, head, rx_alive, delivered, storage,
                   wasm_blob_cache, pc, parent, success, new_block_storage, log, prev>>

\* Lines 110-116, 141: verify_block resolves to an error and the task panics.
VerifyRejected ==
    /\ pc = "verifying"
    /\ Panic([log[1] EXCEPT !.outcome = "rejected"])
    /\ UNCHANGED <<prev, sent, senders_open, head, rx_alive, delivered, storage,
                   wasm_blob_cache>>

\* Lines 110-130: verify_block resolves to Ok(success); the cache is emptied
\* when the changes contain b":code", the child snapshot is built and the
\* parent's snapshot is removed from the store.
VerifyAccepted(changes) ==
    /\ pc = "verifying"
    /\ wasm_blob_cache' = IF touches_code(changes) THEN None ELSE wasm_blob_cache
    /\ success' = Some(changes)
    /\ new_block_storage' = Some(new_block_storage_of(parent[1], changes))
    /\ storage' = remove_storage(storage, evicted_hash(to_execute))
    /\ pc' = "committing"
    /\ log' = Some([log[1] EXCEPT !.changes = Some(changes)])
    /\ answer' = None
    /\ UNCHANGED <<sent, senders_open, head, rx_alive, delivered, parent, prev>>

\* Faulty variant of ExecuteSuccess: the deletions are left out of the
\* changes that are reported.
ExecuteSuccessInsertsOnly(block, changes) ==
    [block |-> block,
     storage_changes |-> [k \in {x \in DOMAIN changes : changes[x] # None} |-> changes[k]]]

\* The ExecuteSuccess sent on line 136 (lines 26-30).  A Result<ExecuteSuccess, ()>
\* is Some(success) for Ok and None for Err(()).
ExecuteSuccess(block, changes) == [block |-> block, storage_changes |-> changes]

\* oneshot::Sender::send: the value reaches the channel unless the receiver
\* is dropped, in which case it is handed back and line 136 ignores it.
oneshot_send(channel, receiver_alive, value) ==
    IF receiver_alive THEN Append(channel, value) ELSE channel

\* Faulty variant of CommitChild: a receiver dropped during verification
\* cancels the commit.
CommitChildUnlessCanceled ==
    /\ pc = "committing"
    /\ storage' = IF rx_alive[head]
                  THEN set_storage(storage, new_hash(to_execute), new_block_storage[1])
                  ELSE storage
    /\ delivered' = [delivered EXCEPT ![head] =
          oneshot_send(@, rx_alive[head], Some(ExecuteSuccess(to_execute, success[1])))]
    /\ pc' = "idle"
    /\ log' = Some([log[1] EXCEPT !.outcome = "accepted"])
    /\ parent' = None
    /\ success' = None
    /\ new_block_storage' = None
    /\ UNCHANGED <<sent, senders_open, head, rx_alive, wasm_blob_cache, answer, prev>>

\* Lines 131-139: the child snapshot is stored under the block's hash and the
\* outcome is sent back.
CommitChild ==
    /\ pc = "committing"
    /\ storage' = set_storage(storage, new_hash(to_execute), new_block_storage[1])
    /\ delivered' = [delivered EXCEPT ![head] =
          oneshot_send(@, rx_alive[head], Some(ExecuteSuccess(to_execute, success[1])))]
    /\ pc' = "idle"
    /\ log' = Some([log[1] EXCEPT !.outcome = "accepted"])
    /\ parent' = None
    /\ success' = None
    /\ new_block_storage' = None
    /\ UNCHANGED <<sent, senders_open, head, rx_alive, wasm_blob_cache, answer, prev>>

\* Lines 48, 145-146: the queue is closed and empty, next() yields None.
Terminate ==
    /\ awaiting_next(pc)
    /\ ~senders_open
    /\ head = Len(sent)
    /\ pc' = "terminated"
    /\ UNCHANGED <<sent, senders_open, head, rx_alive, delivered, storage,
                   wasm_blob_cache, parent, success, new_block_storage, answer, log, prev>>

\* The prefixes the verifier asks for.
Prefixes == {<<>>, <<58>>}

Next ==
    \/ \E block \in Blocks : Submit(block)
    \/ \E i \in 1..MaxRequests : DropReceiver(i)
    \/ CloseSenders
    \/ ReceiveExecute
    \/ \E key \in Keys : ParentStorageGet(key)
    \/ \E prefix \in Prefixes : ParentStorageKeysPrefix(prefix)
    \/ \E key \in Keys : ParentStorageNextKey(key)
    \/ VerifyRejected
    \/ \E changes \in ChangeSets : VerifyAccepted(changes)
    \/ CommitChild
    \/ Terminate

Spec == Init /\ [][Next]_vars

\* ------------------------------------------------------------------ claims
\* The iteration of the message in the log is over.
Finished == log # None /\ pc \in {"idle", "panicked", "terminated"}

\* The message in the log was accepted and nothing was processed since.
JustAccepted == Finished /\ log[1].outcome = "accepted"

\* The causes for which a single message fails.
RequestFailures == {"rejected", "compile_error", "missing_parent"}

\* A failure outcome, Err(()), is the only value on message i's reply channel.
FailureDelivered(i) == delivered[i] = <<None>>

\* C1: when the verifier rejects the block of a live message, a failure
\* outcome is delivered on the message's reply channel and the task is not
\* aborted.
C1_RejectionDelivered ==
    (log # None /\ log[1].outcome = "rejected")
        => (pc # "panicked" /\ FailureDelivered(log[1].id))

\* C2: a message that fails (rejection, code that does not compile, unknown
\* parent hash) does not end the loop: the task is still there to process the
\* messages queued after it.
C2_LoopSurvivesFailure ==
    (log # None /\ log[1].outcome \in RequestFailures) => pc # "panicked"

\* C3: a live message whose parent hash has no snapshot ends in a failure
\* delivered on its reply channel, the verifier is not invoked, the stored
\* snapshots are unchanged and the task is not aborted.
C3_MissingParentIsRequestFailure ==
    [][(/\ pc = "idle"
        /\ head' = head + 1
        /\ rx_alive[head + 1]
        /\ block_storage(storage, sent[head + 1].parent_hash) = None)
         => /\ delivered'[head + 1] = <<None>>
            /\ pc' = "idle"
            /\ storage' = storage]_vars

\* C4: taking a message whose reply channel is already dropped invokes no
\* verifier, leaves the store and the runtime cache as they are, delivers
\* nothing, and leaves the task ready for the next message.
C4_CanceledIsNoOp ==
    [][(pc = "idle" /\ head' = head + 1 /\ ~rx_alive[head + 1])
         => /\ storage' = storage
            /\ wasm_blob_cache' = wasm_blob_cache
            /\ delivered' = delivered
            /\ log' = log
            /\ pc' = "idle"]_vars

\* Message 1 was discarded as canceled and the loop went on to accept message 2.
C4_Witness ==
    /\ head = 2
    /\ ~rx_alive[1]
    /\ prev = None
    /\ JustAccepted
    /\ log[1].id = 2

\* C5: every message processed has exactly one outcome on its reply channel
\* once its iteration is over; a message discarded as canceled has none.
C5_ExactlyOneOutcome ==
    /\ Finished => Len(delivered[log[1].id]) = 1
    /\ \A i \in 1..head :
          (log = None \/ (log[1].id < i /\ pc = "idle")) => delivered[i] = <<>>

\* C6: the snapshot stored under an accepted block's hash is the parent's
\* mapping with the changes applied: a key with a present value holds that
\* value, a key with an absent value is gone, every other key is as in the
\* parent.
C6_ChildIsParentWithDelta ==
    JustAccepted =>
        LET h == block_hash(sent[log[1].id])
            old == log[1].parent[1]
            delta == log[1].changes[1]
        IN  /\ h \in DOMAIN storage
            /\ \A k \in Keys :
                  IF k \in DOMAIN delta
                  THEN IF delta[k] # None
                       THEN k \in DOMAIN storage[h] /\ storage[h][k] = delta[k][1]
                       ELSE k \notin DOMAIN storage[h]
                  ELSE /\ k \in DOMAIN storage[h] <=> k \in DOMAIN old
                       /\ k \in DOMAIN old => storage[h][k] = old[k]

\* An accepted block whose changes removed a key the parent held, while a key
\* outside the changes was kept.
C6_Witness ==
    /\ JustAccepted
    /\ \E k \in DOMAIN log[1].changes[1] :
          log[1].changes[1][k] = None /\ k \in DOMAIN log[1].parent[1]
    /\ \E k \in DOMAIN log[1].parent[1] : k \notin DOMAIN log[1].changes[1]

\* C7: after a block with parent hash P and block hash H # P is accepted, the
\* store holds a snapshot under H and none under P.
C7_ParentEvicted ==
    JustAccepted =>
        LET b == sent[log[1].id]
        IN  block_hash(b) # b.parent_hash
                => /\ block_storage(storage, block_hash(b)) # None
                   /\ block_storage(storage, b.parent_hash) = None

\* A block with H # P was accepted while the store held a second snapshot.
C7_Witness ==
    /\ JustAccepted
    /\ block_hash(sent[log[1].id]) # sent[log[1].id].parent_hash
    /\ Cardinality(DOMAIN storage) = 2

\* The message in the log was accepted and one was accepted before it.
AcceptedAfterAccepted == log # None /\ log[1].outcome = "accepted" /\ prev # None

\* C8 as stated: in a run of accepted messages, a message whose parent code
\* equals that of the previous message causes no compilation, and the message
\* after a block whose changes contain b":code" causes exactly one.
C8_CompilationCount ==
    AcceptedAfterAccepted =>
        /\ code_key(log[1].parent[1]) = prev[1].code => log[1].compiles = 0
        /\ prev[1].touched => log[1].compiles = 1

\* C8, amended: in a run of accepted messages, a message whose parent code
\* equals that of the previous message causes no compilation provided the
\* previous block's changes did not contain b":code"; the message after a
\* block whose changes contain b":code" causes exactly one compilation.
C8_CompilationCountAmended ==
    AcceptedAfterAccepted =>
        /\ (code_key(log[1].parent[1]) = prev[1].code /\ ~prev[1].touched)
               => log[1].compiles = 0
        /\ prev[1].touched => log[1].compiles = 1

\* Two messages accepted in a row on the same code, the second one without a
\* compilation.
C8_Witness ==
    /\ AcceptedAfterAccepted
    /\ code_key(log[1].parent[1]) = prev[1].code
    /\ ~prev[1].touched
    /\ log[1].compiles = 0

\* C9: when an accepted block's changes contain b":code" (present or absent
\* value, new bytes equal to the old ones or not) the runtime cache is empty
\* once the message is done, and the next message the verifier is invoked for
\* has compiled the code of its own parent snapshot first.
C9_CodeChangeEmptiesCache ==
    /\ (JustAccepted /\ CodeKey \in DOMAIN log[1].changes[1]) => wasm_blob_cache = None
    /\ (log # None /\ log[1].runtime # None /\ prev # None /\ prev[1].touched)
           => /\ log[1].compiles = 1
              /\ log[1].runtime = from_bytes(code_key(log[1].parent[1])[1])

\* A block rewrote b":code" with the bytes it already held, and the verifier
\* is invoked for the next message.
C9_Witness ==
    /\ pc = "verifying"
    /\ prev # None
    /\ prev[1].touched
    /\ code_key(parent[1]) = prev[1].code
    /\ log[1].compiles = 1

\* C10: whenever the verifier is running, the runtime cache is filled, its key
\* is the code stored under b":code" in the parent snapshot of the block, and
\* the runtime handed to the verifier is the one compiled from those bytes.
C10_CacheMatchesParentCode ==
    pc = "verifying" =>
        /\ wasm_blob_cache # None
        /\ Some(wasm_blob_cache[1].code) = code_key(parent[1])
        /\ log[1].runtime = Some(wasm_blob_cache[1].blob)
        /\ log[1].runtime[1].compiled_from = parent[1][CodeKey]

\* The verifier runs on a parent whose code differs from that of the message
\* accepted before, whose changes left b":code" alone.
C10_Witness ==
    /\ pc = "verifying"
    /\ prev # None
    /\ ~prev[1].touched
    /\ code_key(parent[1]) # prev[1].code

\* Message i is resolved: its outcome is on its reply channel, or its
\* receiver is gone.
Resolved(i) == delivered[i] # <<>> \/ ~rx_alive[i]

\* C11: messages are taken one at a time in arrival order: message k + 1 is
\* taken only when the task is between iterations and message k is resolved,
\* so the verifier only ever runs for the message taken last.
C11_OneAtATimeInOrder ==
    /\ [](pc \in {"verifying", "committing"} => (log # None /\ log[1].id = head))
    /\ [][head' # head
            => /\ head' = head + 1
               /\ pc = "idle"
               /\ head > 0 => Resolved(head)]_vars

\* The verifier runs for message 2 after the outcome of message 1 was delivered.
C11_Witness ==
    /\ pc = "verifying"
    /\ head = 2
    /\ delivered[1] # <<>>

\* What an accessor call must answer on snapshot snap: the value under the
\* key, every key in increasing order, the least key above the key.
AnswerOn(snap, call, arg, ret) ==
    CASE call = "get" ->
            ret = IF arg \in DOMAIN snap THEN <<snap[arg]>> ELSE <<>>
      [] call = "keys_prefix" ->
            /\ {ret[n] : n \in 1..Len(ret)} = DOMAIN snap
            /\ \A m, n \in 1..Len(ret) : m < n => KeyLess(ret[m], ret[n])
      [] call = "next_key" ->
            IF \E k \in DOMAIN snap : KeyLess(arg, k)
            THEN /\ ret # <<>>
                 /\ ret[1] \in DOMAIN snap
                 /\ KeyLess(arg, ret[1])
                 /\ \A k \in DOMAIN snap :
                       KeyLess(arg, k) => (k = ret[1] \/ KeyLess(ret[1], k))
            ELSE ret = <<>>

\* C12: while the verifier is running no step of the task changes the store,
\* and every answer an accessor gives is the answer on the parent snapshot
\* fetched before the call, which is still the one the store holds.
C12_StableSnapshotDuringVerify ==
    /\ [](pc = "verifying"
            => /\ parent = log[1].parent
               /\ block_storage(storage, to_execute.parent_hash) = log[1].parent
               /\ answer # None
                     => AnswerOn(log[1].parent[1], answer[1].call, answer[1].arg,
                                 answer[1].ret))
    /\ [][(pc = "verifying" /\ pc' = "verifying")
            => (storage' = storage /\ parent' = parent)]_vars

\* The verifier asked for the key after b":" on a parent that holds a later
\* key, while another snapshot is in the store.
C12_Witness ==
    /\ pc = "verifying"
    /\ answer # None
    /\ answer[1].call = "next_key"
    /\ answer[1].ret # None
    /\ Cardinality(DOMAIN storage) = 2

\* C13: the commit of an accepted block is atomic for whoever reads the
\* store: in no state is the parent's snapshot already removed while the
\* child's snapshot is not yet stored under the block's hash.
C13_AtomicCommit ==
    (log # None /\ log[1].changes # None)
        => LET block == sent[log[1].id]
               child == new_block_storage_of(log[1].parent[1], log[1].changes[1])
           IN  (block_hash(block) # block.parent_hash
                    /\ block_storage(storage, block.parent_hash) = None)
                   => block_storage(storage, block_hash(block)) = Some(child)

\* C14: a receiver dropped after the cancellation check does not cancel the
\* message: its accepted block is committed in full (child stored, parent
\* removed, cache emptied when b":code" changed), the failed send leaves
\* nothing on the channel, and the task goes on.
C14_NoMidFlightCancel ==
    (JustAccepted /\ ~rx_alive[log[1].id])
        => LET block == sent[log[1].id]
               child == new_block_storage_of(log[1].parent[1], log[1].changes[1])
           IN  /\ block_storage(storage, block_hash(block)) = Some(child)
               /\ block_hash(block) # block.parent_hash
                     => block_storage(storage, block.parent_hash) = None
               /\ CodeKey \in DOMAIN log[1].changes[1] => wasm_blob_cache = None
               /\ delivered[log[1].id] = <<>>
               /\ pc \in {"idle", "terminated"}

\* Message 1 lost its receiver during verification, its block changed
\* b":code" and was committed, and the task has taken message 2.
C14_Witness ==
    /\ JustAccepted
    /\ log[1].id = 1
    /\ ~rx_alive[1]
    /\ CodeKey \in DOMAIN log[1].changes[1]
    /\ head = 2

\* Message j was accepted before the message in the log, with the same
\* parent hash.
EarlierAcceptedSibling(j) ==
    /\ j < log[1].id
    /\ delivered[j] # <<>>
    /\ sent[j].parent_hash = sent[log[1].id].parent_hash

\* C15 as stated: once a block with parent P is accepted, no later message
\* whose block names P as parent is accepted.
C15_NoSecondChild ==
    (log # None /\ log[1].outcome = "accepted")
        => \A j \in 1..Len(sent) : ~EarlierAcceptedSibling(j)

\* C15, amended: once a block with parent P and hash other than P is
\* accepted, the store holds no snapshot under P until a block whose hash is
\* P is committed; a live message whose parent hash has no snapshot is not
\* accepted: the verifier is not run and the store is left as it is.
C15_NoSecondChildWhileEvicted ==
    /\ [](JustAccepted
            => (block_hash(sent[log[1].id]) # sent[log[1].id].parent_hash
                   => sent[log[1].id].parent_hash \notin DOMAIN storage))
    /\ [][/\ \A h \in Hashes :
                (h \notin DOMAIN storage /\ h \in DOMAIN storage')
                    => (pc = "committing" /\ block_hash(to_execute) = h)
          /\ (/\ pc = "idle"
              /\ head' = head + 1
              /\ rx_alive[head + 1]
              /\ sent[head + 1].parent_hash \notin DOMAIN storage)
                 => (storage' = storage /\ pc' \notin {"verifying", "committing"})]_vars

\* A message names the parent of a block accepted before it and finds no
\* snapshot for it.
C15_Witness ==
    /\ log # None
    /\ log[1].outcome = "missing_parent"
    /\ \E j \in 1..Len(sent) : EarlierAcceptedSibling(j)

\* C16: as long as the verifier call of a message has not resolved, the task
\* stays in that message: no later message is taken, nothing is delivered,
\* the store and the runtime cache do not change; the only way out is the
\* call resolving (or panicking in an accessor).
C16_StalledWhileVerifying ==
    [][pc = "verifying"
         => /\ head' = head
            /\ \A i \in 1..Len(delivered) : delivered'[i] = delivered[i]
            /\ pc' \in {"verifying", "committing", "panicked"}
            /\ pc' # "committing"
                  => (storage' = storage /\ wasm_blob_cache' = wasm_blob_cache)]_vars

\* The verifier is still running for message 1, it has asked for storage, the
\* queue is closed and message 2 waits in it with a live receiver.
C16_Witness ==
    /\ pc = "verifying"
    /\ head = 1
    /\ answer # None
    /\ Len(sent) = 2
    /\ rx_alive[2]
    /\ delivered[2] = <<>>
    /\ ~senders_open

\* C17: the key-enumeration accessor answers the empty prefix only, with
\* every key of the parent snapshot; a call with a non-empty prefix gets no
\* answer at all: it fails the assertion and the task is gone.
C17_KeysPrefixOnlyEmpty ==
    /\ (answer # None /\ answer[1].call = "keys_prefix")
          => /\ answer[1].arg = <<>>
             /\ Len(answer[1].ret) = Cardinality(DOMAIN log[1].parent[1])
             /\ \A k \in DOMAIN log[1].parent[1] :
                   \E n \in 1..Len(answer[1].ret) : answer[1].ret[n] = k
    /\ (log # None /\ log[1].outcome = "assert_prefix")
          => /\ pc = "panicked"
             /\ answer = None
             /\ delivered[log[1].id] = <<>>

\* A non-empty prefix was asked for on a parent snapshot that holds keys
\* starting with it.
C17_Witness ==
    /\ log # None
    /\ log[1].outcome = "assert_prefix"
    /\ CodeKey \in DOMAIN log[1].parent[1]
    /\ pc = "panicked"

\* The number of snapshots the store holds.
SnapshotCount(store) == Cardinality(DOMAIN store)

\* C18: no request increases the number of stored snapshots.  An accepted
\* block first takes its parent's snapshot out and then puts its own in, so
\* the count after the commit is at most the count before the request, and a
\* store that held one snapshot holds exactly one again, the block's; every
\* other step leaves the store as it is.
C18_SnapshotCountNeverGrows ==
    [][LET before == SnapshotCount(storage)
           after  == SnapshotCount(storage')
       IN  CASE pc = "verifying" /\ pc' = "committing" ->
                    after = before - 1
             [] pc = "committing" /\ pc' # "committing" ->
                    /\ after <= before + 1
                    /\ block_hash(sent[head]) \in DOMAIN storage'
                    /\ before = 0 => DOMAIN storage' = {block_hash(sent[head])}
             [] OTHER ->
                    storage' = storage]_vars

\* The chain 0 -> 1 -> 2 has been executed in order and accepted, and the
\* store holds the snapshot of the last block only.
C18_Witness ==
    /\ JustAccepted
    /\ head = 2
    /\ sent[1].parent_hash = 0 /\ block_hash(sent[1]) = 1
    /\ sent[2].parent_hash = 1 /\ block_hash(sent[2]) = 2
    /\ delivered[1] # <<>>
    /\ delivered[2] # <<>>
    /\ DOMAIN storage = {2}

\* C19: the Ok outcome on the reply channel of an accepted message carries
\* the block of that message and the changes the verifier returned, and the
\* snapshot committed under the block's hash is the parent's with exactly
\* these changes applied.
C19_OutcomeCarriesBlockAndChanges ==
    (JustAccepted /\ delivered[log[1].id] # <<>>)
        => LET id      == log[1].id
               outcome == delivered[id]
           IN  /\ Len(outcome) = 1
               /\ outcome[1] # None
               /\ outcome[1][1].block = sent[id]
               /\ outcome[1][1].storage_changes = log[1].changes[1]
               /\ block_hash(sent[id]) \in DOMAIN storage
               /\ \A k \in Keys :
                     LET child   == storage[block_hash(sent[id])]
                         before  == log[1].parent[1]
                         changes == outcome[1][1].storage_changes
                     IN  IF k \in DOMAIN changes
                         THEN IF changes[k] = None
                              THEN k \notin DOMAIN child
                              ELSE k \in DOMAIN child /\ child[k] = changes[k][1]
                         ELSE /\ (k \in DOMAIN child) = (k \in DOMAIN before)
                              /\ k \in DOMAIN child => child[k] = before[k]

\* An accepted message whose changes delete a key of the parent and insert
\* another has its outcome on the reply channel.
C19_Witness ==
    /\ JustAccepted
    /\ delivered[log[1].id] # <<>>
    /\ \E k \in DOMAIN log[1].changes[1] :
          log[1].changes[1][k] = None /\ k \in DOMAIN log[1].parent[1]
    /\ \E k \in DOMAIN log[1].changes[1] : log[1].changes[1][k] # None

\* C20: once the queue is closed, and no verifier call failed, the task comes
\* to its end only after every queued message has been taken from the queue:
\* it never ends while a queued message is unprocessed.
C20_EndsOnlyWhenDrained ==
    (/\ pc \in {"panicked", "terminated"}
     /\ ~senders_open
     /\ ~(log # None /\ log[1].outcome \in {"rejected", "assert_prefix"}))
        => head = Len(sent)

====
